---- MODULE Spec2Model ----
(***************************************************************************)
(* op-signer: the authorization policy lookup, the signing pipeline        *)
(* (eth_signTransaction, opsigner_signBlockPayload), and the router-side   *)
(* registry of signer connections with its failover Call.                  *)
(*                                                                         *)
(* Go values are represented as follows.                                   *)
(*   hex string      a sequence of one-character strings                   *)
(*   common.Address  a sequence of hex digits (0..15), two in the model    *)
(*   *T (pointer)    the value, or Nil (the empty sequence) for nil        *)
(*   *hexutil.Big    <<n>> for the number n, or Nil                        *)
(*   *big.Int        [hi, lo] for the number hi * 2^64 + lo                *)
(* Client names, key names and host names are compared only as wholes and  *)
(* are TLA+ strings; the strings whose characters matter (hex strings) are *)
(* sequences of one-character strings.                                     *)
(***************************************************************************)
EXTENDS Integers, Sequences, FiniteSets, TLC

VARIABLES
    config,      \* SignerServiceConfig.Auth: the policy table, a sequence of AuthConfig
    pcClients,   \* ProxyWSClients.wsClients: handles the signing service forwards to
    last,        \* the last completed call of a signing handler: request and outcome
    wsClients,   \* SignerClients.wsClients: the router's registry of signer handles
    task,        \* the router's request goroutines: position in the handler and in Call
    closes,      \* per handle, the number of Close calls removeClient has started
    mu,          \* SignerClients.mu: the task that holds the mutex, or "none"
    reg,         \* the goroutine serving opsignerproxy_serveSigner on the router
    pcl          \* the ProxyClient of a signer: its fields and its position in Start

vars == <<config, pcClients, last, wsClients, task, closes, mu, reg, pcl>>

signVars == <<config, pcClients, last>>
routerVars == <<wsClients, task, closes, mu, reg>>

\* ------------------------------------------------------------------ bounds

\* longest policy table drawn by Init
MaxEntries == 2
\* most handles ever appended to ProxyWSClients.wsClients
MaxPcClients == 1
\* number of signer connections (handles) the router sees
MaxHandles == 2
\* most Close calls on one connection: a connection closed that often does not
\* announce itself again
MaxCloses == 1

\* the attempts of one connectWithBackoff are counted up to here
MaxCounted == 18

\* ------------------------------------------------------------------ values

Nil == <<>>

Range(s) == {s[i] : i \in 1..Len(s)}

HexLower == <<"0","1","2","3","4","5","6","7","8","9","a","b","c","d","e","f">>
HexUpper == <<"0","1","2","3","4","5","6","7","8","9","A","B","C","D","E","F">>

IsHexChar(c) == \E i \in 1..16 : HexLower[i] = c \/ HexUpper[i] = c

HexVal(c) == (CHOOSE i \in 1..16 : HexLower[i] = c \/ HexUpper[i] = c) - 1

LowerOf ==
    [c \in Range(HexLower) \cup Range(HexUpper) \cup {"x", "X"} |->
        IF c = "X" THEN "x"
        ELSE IF \E i \in 11..16 : HexUpper[i] = c
             THEN HexLower[CHOOSE i \in 11..16 : HexUpper[i] = c]
             ELSE c]

\* unicode simple case folding, restricted to the characters of hex strings
ToLower(c) == LowerOf[c]

\* strings.EqualFold
EqualFold(s, t) ==
    /\ Len(s) = Len(t)
    /\ \A i \in 1..Len(s) : ToLower(s[i]) = ToLower(t[i])


AA == <<10, 10>>
BB == <<11, 11>>
CC == <<12, 12>>

Addrs == {AA, BB, CC}

\* stand-in for the nibble of Keccak256(lower-case hex) that decides the case of
\* digit i in the EIP-55 checksum encoding
HashNibble(a, i) == (7 * a[i] + 3 * i + a[1] + a[2]) % 16

\* common.Address.Hex: "0x" followed by the checksum-cased hex digits
Hex(a) ==
    <<"0", "x">> \o
    [i \in 1..Len(a) |->
        IF HashNibble(a, i) >= 8 THEN HexUpper[a[i] + 1] ELSE HexLower[a[i] + 1]]

has0xPrefix(s) == Len(s) >= 2 /\ s[1] = "0" /\ s[2] \in {"x", "X"}

\* hexutil.Decode succeeds
DecodeOk(s) ==
    /\ has0xPrefix(s)
    /\ (Len(s) - 2) % 2 = 0
    /\ \A i \in 3..Len(s) : IsHexChar(s[i])

\* hexutil.DecodeBig succeeds: prefix, at least one digit, no leading zero
DecodeBigOk(s) ==
    /\ has0xPrefix(s)
    /\ Len(s) >= 3
    /\ (Len(s) > 3 => s[3] # "0")
    /\ \A i \in 3..Len(s) : IsHexChar(s[i])

RECURSIVE HexNumber(_, _)
\* the number written by the hex digits s[3..n]
HexNumber(s, n) ==
    IF n < 3 THEN 0 ELSE 16 * HexNumber(s, n - 1) + HexVal(s[n])

\* ------------------------------------------------------------------ config.go

\* AuthConfig.MaxValueToInt: hexutil.MustDecodeBig panics on a malformed string
MaxValueToInt(c) ==
    IF DecodeBigOk(c.MaxValue)
    THEN [panic |-> FALSE, n |-> HexNumber(c.MaxValue, Len(c.MaxValue))]
    ELSE [panic |-> TRUE, n |-> 0]

AuthConfig(name, key, chain, from, tos, max) ==
    [ClientName |-> name, KeyName |-> key, ChainID |-> chain,
     FromAddress |-> from, ToAddresses |-> tos, MaxValue |-> max]

\* the policy entries the tables of the model are built from
Entry1 == AuthConfig("alice", "k1", 10, AA, << <<"0","X","B","b">> >>, <<"0","x","2">>)
Entry2 == AuthConfig("alice", "k2", 10, BB, <<>>, <<>>)
Entry3 == AuthConfig("bob", "k2", 11, CC, <<>>, <<"2">>)
Entry4 == AuthConfig("alice", "k1", 11, AA, << <<"0","x">>, <<"0","x","a","a">> >>, <<"0","x","1","1">>)

Entries == {Entry1, Entry2, Entry3, Entry4}

\* ReadConfig accepts the auth section: every toAddress decodes, and maxValue is
\* decoded only inside the loop over the entry's toAddresses
ReadConfigAccepts(auth) ==
    \A i \in 1..Len(auth) :
        \A j \in 1..Len(auth[i].ToAddresses) :
            /\ DecodeOk(auth[i].ToAddresses[j])
            /\ (auth[i].MaxValue # <<>> => DecodeBigOk(auth[i].MaxValue))

\* the tables Init draws: no entry twice, accepted by ReadConfig
Tables ==
    {t \in UNION {[1..n -> Entries] : n \in 0..MaxEntries} :
        /\ \A i, j \in 1..Len(t) : t[i] = t[j] => i = j
        /\ ReadConfigAccepts(t)}

NoEntry == AuthConfig("", "", 0, Nil, <<>>, <<>>)

RECURSIVE ScanAuthAnyAddress(_, _, _, _)
\* variant of the loop that matches on the client name alone
ScanAuthAnyAddress(auth, i, clientName, fromAddress) ==
    IF i > Len(auth) THEN [ok |-> FALSE, ac |-> NoEntry]
    ELSE IF auth[i].ClientName = clientName THEN [ok |-> TRUE, ac |-> auth[i]]
    ELSE ScanAuthAnyAddress(auth, i + 1, clientName, fromAddress)

RECURSIVE ScanAuth(_, _, _, _)
\* the loop of GetAuthConfigForClient from index i on
ScanAuth(auth, i, clientName, fromAddress) ==
    IF i > Len(auth) THEN [ok |-> FALSE, ac |-> NoEntry]
    ELSE IF auth[i].ClientName = clientName
         THEN IF fromAddress # Nil /\ fromAddress # auth[i].FromAddress
              THEN ScanAuth(auth, i + 1, clientName, fromAddress)
              ELSE [ok |-> TRUE, ac |-> auth[i]]
         ELSE ScanAuth(auth, i + 1, clientName, fromAddress)

\* SignerServiceConfig.GetAuthConfigForClient: (entry, nil) or (nil, error)
GetAuthConfigForClient(auth, clientName, fromAddress) ==
    IF clientName = "" THEN [ok |-> FALSE, ac |-> NoEntry]
    ELSE ScanAuth(auth, 1, clientName, fromAddress)

\* variant of the lookup that moves the entry it returns to the head of the table
TableMoveToFront(auth, lookup) ==
    IF lookup.ok
    THEN <<lookup.ac>> \o SelectSeq(auth, LAMBDA e : e # lookup.ac)
    ELSE auth

\* the table of the service after a handler has called GetAuthConfigForClient:
\* the method has a value receiver and returns the address of a copy of the
\* entry, which the handlers only read
TableAfterCall(auth, lookup) == auth

\* ProxyWSClients.GetClient: the first handle, or an error when there is none
GetClient(clients) ==
    IF Len(clients) = 0 THEN [ok |-> FALSE, c |-> "none"]
    ELSE [ok |-> TRUE, c |-> clients[1]]

\* ------------------------------------------------------------------ service.go

\* variant of containsNormalized that compares the strings as they are written
containsExact(s, e) == \E i \in 1..Len(s) : s[i] = e

\* containsNormalized
containsNormalized(s, e) == \E i \in 1..Len(s) : EqualFold(s[i], e)

\* variant of the value comparison that also refuses a value equal to the cap
ValueReaches(value, max) == value >= max

\* args.Value.ToInt().Cmp(authConfig.MaxValueToInt()) > 0
ValueExceeds(value, max) == value > max

BigInt(hi, lo) == [hi |-> hi, lo |-> lo]

\* big.Int.Uint64: the low 64 bits of the number
Uint64(x) == x.lo

\* url.Parse followed by URL.Hostname, on the values of PeerInfo.HTTP.Host the
\* model draws: a bare host name parses as a path and has no host part
UrlParse(host) ==
    IF host = "//alice" THEN [err |-> FALSE, hostname |-> "alice"]
    ELSE IF host = ":" THEN [err |-> TRUE, hostname |-> ""]
    ELSE [err |-> FALSE, hostname |-> ""]

\* the address of the key the Signature Provider holds under a key name
KeyAddress(key) ==
    IF key = "k1" THEN AA ELSE IF key = "k2" THEN BB ELSE CC

\* variant that takes the client name from the peer host alone (the handlers
\* of unnamed/part_002 lines 113-119)
TxClientNameFromHost(ctx) ==
    IF ~UrlParse(ctx.host).err THEN UrlParse(ctx.host).hostname ELSE ""

\* client name of EthService.SignTransaction
TxClientName(ctx) ==
    IF ctx.clientName # "" THEN ctx.clientName
    ELSE IF ctx.host # "" /\ ~UrlParse(ctx.host).err THEN UrlParse(ctx.host).hostname
    ELSE ""

\* client name of OpsignerSerivce.SignBlockPayload
BpClientName(ctx) ==
    IF ctx.clientName # "" THEN ctx.clientName
    ELSE IF ctx.host # "" THEN ctx.host
    ELSE ""

\* what a handler call did: the resolved name, the policy lookup, whether the
\* request was forwarded (and under which method), the key SignDigest was called
\* with (Nil: not called), the returned status, and the metric increments
Outcome(name, lookup, forwarded, method, signKey, status, msg, incs) ==
    [clientName |-> name, lookup |-> lookup, forwarded |-> forwarded,
     method |-> method, signKey |-> signKey, status |-> status, msg |-> msg,
     incs |-> incs]

\* variant of the sanity check that accepts every recovered signer
FromIgnored(from, signerFrom) == FALSE

\* args.From != nil && *args.From != signerFrom
FromMismatch(from, signerFrom) == from # Nil /\ from # signerFrom

\* EthService.SignTransaction after the policy lookup succeeded and no proxy
\* client is registered (service.go 108-196); the deferred increment runs on
\* every return and on a panic
SignTransactionLocal(name, lookup, args, env) ==
    LET ac == lookup.ac
        Out(signKey, status, msg) ==
            Outcome(name, lookup, FALSE, "", signKey, status, msg, 1)
    IN  IF ~args.checkOk THEN Out(Nil, "InvalidTransaction", "check")
        ELSE IF Len(ac.ToAddresses) > 0 /\ args.To = Nil
        THEN Out(Nil, "crashed", "nil to")
        ELSE IF Len(ac.ToAddresses) > 0 /\ ~containsNormalized(ac.ToAddresses, Hex(args.To))
        THEN Out(Nil, "UnauthorizedTransaction", "to address not authorized")
        ELSE IF Len(ac.MaxValue) > 0 /\ MaxValueToInt(ac).panic
        THEN Out(Nil, "crashed", "maxValue")
        ELSE IF Len(ac.MaxValue) > 0 /\ args.Value = Nil
        THEN Out(Nil, "crashed", "nil value")
        ELSE IF Len(ac.MaxValue) > 0 /\ ValueExceeds(args.Value[1], MaxValueToInt(ac).n)
        THEN Out(Nil, "UnauthorizedTransaction", "value exceeds maximum")
        ELSE IF env.fault = "txdata"
        THEN Out(Nil, "InvalidTransaction", "transaction_args_error")
        ELSE IF env.fault = "sign"
        THEN Out(<<ac.KeyName>>, "InvalidTransaction", "sign_error")
        ELSE IF env.fault = "withsig"
        THEN Out(<<ac.KeyName>>, "InvalidTransaction", "invalid_transaction_error")
        ELSE IF env.fault = "sender"
        THEN Out(<<ac.KeyName>>, "InvalidTransaction", "sign_error")
        ELSE IF FromMismatch(args.From, KeyAddress(ac.KeyName))
        THEN Out(<<ac.KeyName>>, "InvalidTransaction", "unexpected from address")
        ELSE IF env.fault = "marshal"
        THEN Out(<<ac.KeyName>>, "InvalidTransaction", "transaction_marshal_error")
        ELSE Out(<<ac.KeyName>>, "ok", "signed")

\* variant of SignTransaction that passes the from address of the request to
\* the policy lookup
SignTransactionFromLookup(auth, clients, ctx, args, env) ==
    LET name == TxClientName(ctx)
        lookup == GetAuthConfigForClient(auth, name, args.From)
    IN  IF ~lookup.ok
        THEN Outcome(name, lookup, FALSE, "", Nil, "Forbidden", "lookup", 0)
        ELSE IF GetClient(clients).ok
        THEN Outcome(name, lookup, TRUE, "eth_signTransaction", Nil,
                     IF env.remote = "ok" THEN "ok" ELSE "ProxiedError", "remote", 0)
        ELSE SignTransactionLocal(name, lookup, args, env)

\* variant of SignTransaction that validates the request before it looks the
\* client up
SignTransactionCheckFirst(auth, clients, ctx, args, env) ==
    LET name == TxClientName(ctx)
        lookup == GetAuthConfigForClient(auth, name, Nil)
    IN  IF ~args.checkOk
        THEN Outcome(name, lookup, FALSE, "", Nil, "InvalidTransaction", "check", 1)
        ELSE IF ~lookup.ok
        THEN Outcome(name, lookup, FALSE, "", Nil, "Forbidden", "lookup", 0)
        ELSE IF GetClient(clients).ok
        THEN Outcome(name, lookup, TRUE, "eth_signTransaction", Nil,
                     IF env.remote = "ok" THEN "ok" ELSE "ProxiedError", "remote", 0)
        ELSE SignTransactionLocal(name, lookup, args, env)

\* EthService.SignTransaction
EthService_SignTransaction(auth, clients, ctx, args, env) ==
    LET name == TxClientName(ctx)
        lookup == GetAuthConfigForClient(auth, name, Nil)
    IN  IF ~lookup.ok
        THEN Outcome(name, lookup, FALSE, "", Nil, "Forbidden", "lookup", 0)
        ELSE IF GetClient(clients).ok
        THEN IF env.remote = "ok"
             THEN Outcome(name, lookup, TRUE, "eth_signTransaction", Nil,
                          "ok", "remote", 0)
             ELSE Outcome(name, lookup, TRUE, "eth_signTransaction", Nil,
                          "ProxiedError", "remote", 0)
        ELSE SignTransactionLocal(name, lookup, args, env)

\* OpsignerSerivce.SignBlockPayload after the policy lookup succeeded and no
\* proxy client is registered (service.go 219-264)
SignBlockPayloadLocal(name, lookup, args, env) ==
    LET ac == lookup.ac
        Out(signKey, status, msg) ==
            Outcome(name, lookup, FALSE, "", signKey, status, msg, 1)
    IN  IF ~args.checkOk THEN Out(Nil, "InvalidBlockPayload", "check")
        ELSE IF args.SenderAddress = Nil
        THEN Out(Nil, "crashed", "nil senderAddress")
        ELSE IF args.SenderAddress # ac.FromAddress
        THEN Out(Nil, "UnauthorizedBlockPayload", "unexpected from address")
        ELSE IF Uint64(args.ChainID) # ac.ChainID
        THEN Out(Nil, "UnauthorizedBlockPayload", "unexpected chainId")
        ELSE IF env.fault = "txdata"
        THEN Out(Nil, "InvalidBlockPayload", "signing hash")
        ELSE IF env.fault = "sign"
        THEN Out(<<ac.KeyName>>, "InvalidBlockPayload", "sign_error")
        ELSE Out(<<ac.KeyName>>, "ok", "signed")

\* variant of SignBlockPayload that looks the client up by its name alone
SignBlockPayloadNameLookup(auth, clients, ctx, args, env) ==
    LET name == BpClientName(ctx)
        lookup == GetAuthConfigForClient(auth, name, Nil)
    IN  IF ~lookup.ok
        THEN Outcome(name, lookup, FALSE, "", Nil, "Forbidden", "lookup", 0)
        ELSE IF GetClient(clients).ok
        THEN Outcome(name, lookup, TRUE, "opsigner_signBlockPayload", Nil,
                     IF env.remote = "ok" THEN "ok" ELSE "ProxiedError", "remote", 0)
        ELSE SignBlockPayloadLocal(name, lookup, args, env)

\* OpsignerSerivce.SignBlockPayload
OpsignerSerivce_SignBlockPayload(auth, clients, ctx, args, env) ==
    LET name == BpClientName(ctx)
        lookup == GetAuthConfigForClient(auth, name, args.SenderAddress)
    IN  IF ~lookup.ok
        THEN Outcome(name, lookup, FALSE, "", Nil, "Forbidden", "lookup", 0)
        ELSE IF GetClient(clients).ok
        THEN IF env.remote = "ok"
             THEN Outcome(name, lookup, TRUE, "opsigner_signBlockPayload", Nil,
                          "ok", "remote", 0)
             ELSE Outcome(name, lookup, TRUE, "opsigner_signBlockPayload", Nil,
                          "ProxiedError", "remote", 0)
        ELSE SignBlockPayloadLocal(name, lookup, args, env)


\* ------------------------------------------------------------------ proxy.go

\* OpsignerproxyService.ServeSigner (proxy.go 254-262): without a connection on
\* the call context nothing is appended
OpsignerproxyService_ServeSigner(clients, wsClient) ==
    IF wsClient = Nil THEN clients ELSE Append(clients, wsClient[1])

\* ------------------------------------------------------------------ proxy_ws.go

Handles == 1..MaxHandles

Tasks == {"t1", "t2"}

\* variant of AddClient that appends without looking (unnamed/part_002 line 97)
AppendClient(clients, c) == Append(clients, c)

\* SignerClients.AddClient: a keyed insert; inserting a handle that is already
\* registered leaves the registry as it is
AddClient(clients, c) ==
    IF c \in Range(clients) THEN clients ELSE Append(clients, c)

\* sync.Mutex.Lock by the task t, which waits while the mutex is held
Lock(m, t) == t

\* sync.Mutex.Unlock
Unlock(m) == "none"

\* variant of the locking of getCopy without the deferred Unlock
getCopyKeepsLock(m, t) == Lock(m, t)

\* the mutex when getCopy returns to the task t: locked, and unlocked by the defer
getCopyLocking(m, t) == Unlock(Lock(m, t))

\* the mutex when removeClient returns to the task t
removeClientLocking(m, t) == Unlock(Lock(m, t))

\* variant of getCopy that allocates the copy and does not fill it from the registry
getEmptyCopy(clients) == <<>>

\* SignerClients.getCopy: a copy of the registry, taken under the lock
getCopy(clients) == clients

RECURSIVE IndexOf(_, _, _)
\* the loop of removeClient: the first index from i on that holds c, 0 if none
IndexOf(clients, c, i) ==
    IF i > Len(clients) THEN 0
    ELSE IF clients[i] = c THEN i
    ELSE IndexOf(clients, c, i + 1)

\* variant of removeClient that cuts out the last handle of the registry
removeLast(clients, c) ==
    IF Len(clients) = 0 THEN [clients |-> clients, closed |-> 0]
    ELSE [clients |-> SubSeq(clients, 1, Len(clients) - 1), closed |-> 1]

\* variant of removeClient that leaves the registry as it is
removeNothing(clients, c) == [clients |-> clients, closed |-> 0]

\* variant of removeClient that closes the handle whether or not it found it
\* (the Call of unnamed/part_002 lines 34-53 closes on every failure)
removeAndCloseAlways(clients, c) ==
    LET i == IndexOf(clients, c, 1)
    IN  IF i = 0 THEN [clients |-> clients, closed |-> 1]
        ELSE [clients |-> SubSeq(clients, 1, i - 1) \o SubSeq(clients, i + 1, Len(clients)),
              closed |-> 1]

\* SignerClients.removeClient, under the lock: the first occurrence of c is cut
\* out and one Close is started; without an occurrence nothing happens
removeClient(clients, c) ==
    LET i == IndexOf(clients, c, 1)
    IN  IF i = 0 THEN [clients |-> clients, closed |-> 0]
        ELSE [clients |-> SubSeq(clients, 1, i - 1) \o SubSeq(clients, i + 1, Len(clients)),
              closed |-> 1]

\* what CallContext returned on a handle: a result ("ok"), an error value sent
\* by the remote peer ("rpc"), or a failure of the connection ("transport")
Response(kind, h) == [kind |-> kind, from |-> h]

NoResponse == Response("none", 0)

\* NoClientsAvailableError
NoClientsAvailableError == Response("NoClientsAvailable", 0)

\* variant of the test that takes only a nil error for an answer (the Call of
\* unnamed/part_005 lines 40-56 removes the handle on every error)
IsNilError(resp) == resp.kind = "ok"

\* the test of Call on the error of CallContext: err == nil || errors.As(err, &rpcErr)
IsProtocolLevel(resp) == resp.kind \in {"ok", "rpc"}

\* a goroutine of the router that is not serving a request
IdleTask ==
    [pc |-> "idle", op |-> "none", name |-> "", sender |-> Nil, lookupOk |-> FALSE,
     method |-> "", snap |-> <<>>, i |-> 0, err |-> NoResponse, ret |-> NoResponse,
     status |-> "none"]

\* SignerClients.Call up to its first CallContext: the snapshot, and the
\* immediate NoClientsAvailable on an empty one
CallEnter(t, clients, method) ==
    LET localClients == getCopy(clients)
    IN  IF Len(localClients) = 0
        THEN [t EXCEPT !.pc = "done", !.method = method,
                       !.ret = NoClientsAvailableError, !.status = "NoClientsAvailable"]
        ELSE [t EXCEPT !.pc = "calling", !.method = method, !.snap = localClients,
                       !.i = 1]

\* variant of Call that takes a new snapshot when the handles of its snapshot
\* have all failed and the registry holds others
CallStepRetrying(t, clients, resp) ==
    IF IsProtocolLevel(resp)
    THEN [task |-> [t EXCEPT !.pc = "done", !.err = resp, !.ret = resp,
                             !.status = IF resp.kind = "ok" THEN "ok" ELSE "rpcError"],
          clients |-> clients, closed |-> 0]
    ELSE LET rm == removeClient(clients, t.snap[t.i])
         IN  [task |-> IF t.i < Len(t.snap)
                       THEN [t EXCEPT !.i = t.i + 1, !.err = resp]
                       ELSE IF rm.clients # <<>>
                       THEN [t EXCEPT !.snap = getCopy(rm.clients), !.i = 1,
                                      !.err = resp]
                       ELSE [t EXCEPT !.pc = "done", !.i = t.i + 1, !.err = resp,
                                      !.ret = NoClientsAvailableError,
                                      !.status = "NoClientsAvailable"],
              clients |-> rm.clients, closed |-> rm.closed]

\* SignerClients.Call from the return of the CallContext on snap[i] to the next
\* CallContext or to the return of Call: the task and the registry afterwards
CallStep(t, clients, resp) ==
    IF IsProtocolLevel(resp)
    THEN [task |-> [t EXCEPT !.pc = "done", !.err = resp, !.ret = resp,
                             !.status = IF resp.kind = "ok" THEN "ok" ELSE "rpcError"],
          clients |-> clients, closed |-> 0]
    ELSE LET rm == removeClient(clients, t.snap[t.i])
         IN  [task |-> IF t.i = Len(t.snap)
                       THEN [t EXCEPT !.pc = "done", !.i = t.i + 1, !.err = resp,
                                      !.ret = NoClientsAvailableError,
                                      !.status = "NoClientsAvailable"]
                       ELSE [t EXCEPT !.i = t.i + 1, !.err = resp],
              clients |-> rm.clients, closed |-> rm.closed]

\* SignerClients.Call from the return of a CallContext that failed at the
\* transport up to the loop of removeClient, the mutex taken
removeClientEnter(t, resp) == [t EXCEPT !.pc = "removing", !.err = resp]

\* variant of EthProxyService.SignTransaction that forwards whatever the lookup said
ForwardUnchecked(t, auth, clients, name) ==
    LET lookup == GetAuthConfigForClient(auth, name, Nil)
        t1 == [t EXCEPT !.op = "SignTransaction", !.name = name, !.lookupOk = lookup.ok]
    IN  CallEnter(t1, clients, "eth_signTransaction")

\* EthProxyService.SignTransaction up to the first CallContext of Call
EthProxyService_SignTransaction(t, auth, clients, name) ==
    LET lookup == GetAuthConfigForClient(auth, name, Nil)
        t1 == [t EXCEPT !.op = "SignTransaction", !.name = name, !.lookupOk = lookup.ok]
    IN  IF ~lookup.ok THEN [t1 EXCEPT !.pc = "done", !.status = "Forbidden"]
        ELSE CallEnter(t1, clients, "eth_signTransaction")

\* variant of OpsignerProxyService.SignBlockPayload that forwards under the
\* method of the transactions (unnamed/part_002 line 153)
SignBlockPayloadAsTransaction(t, auth, clients, name, sender) ==
    LET lookup == GetAuthConfigForClient(auth, name, sender)
        t1 == [t EXCEPT !.op = "SignBlockPayload", !.name = name, !.sender = sender,
                        !.lookupOk = lookup.ok]
    IN  IF ~lookup.ok THEN [t1 EXCEPT !.pc = "done", !.status = "Forbidden"]
        ELSE CallEnter(t1, clients, "eth_signTransaction")

\* OpsignerProxyService.SignBlockPayload up to the first CallContext of Call
OpsignerProxyService_SignBlockPayload(t, auth, clients, name, sender) ==
    LET lookup == GetAuthConfigForClient(auth, name, sender)
        t1 == [t EXCEPT !.op = "SignBlockPayload", !.name = name, !.sender = sender,
                        !.lookupOk = lookup.ok]
    IN  IF ~lookup.ok THEN [t1 EXCEPT !.pc = "done", !.status = "Forbidden"]
        ELSE CallEnter(t1, clients, "opsigner_signBlockPayload")

RECURSIVE RunCall(_, _, _, _)
\* SignerClients.Call run from a CallContext to its return, the connection h
\* answering as resp[h] says: the task, the registry and the Close calls
\* counted on each connection at the end
RunCall(t, clients, cl, resp) ==
    IF t.pc # "calling"
    THEN [task |-> t, clients |-> clients, closes |-> cl]
    ELSE LET h == t.snap[t.i]
             step == CallStep(t, clients, Response(resp[h], h))
         IN  RunCall(step.task, step.clients,
                     [cl EXCEPT ![h] = IF @ + step.closed > MaxCloses + 1
                                       THEN MaxCloses + 1 ELSE @ + step.closed],
                     resp)

\* what a handler call of the router did: the task at its return, the registry
\* and the Close counts afterwards, and the arguments each CallContext was
\* given (Nil: no CallContext was issued)
ProxyOutcome(run, issued, args) ==
    [clientName |-> run.task.name, lookupOk |-> run.task.lookupOk,
     method |-> run.task.method, snap |-> run.task.snap,
     sent |-> IF issued THEN <<args>> ELSE Nil,
     ret |-> run.task.ret, status |-> run.task.status,
     clients |-> run.clients, closes |-> run.closes]

\* variant of the handlers of the router that validates the request itself
\* before it forwards it
ProxyServeChecked(op, auth, clients, cl, ctx, args, resp) ==
    LET t0 == IF op = "SignTransaction"
              THEN EthProxyService_SignTransaction(IdleTask, auth, clients, ctx.clientName)
              ELSE OpsignerProxyService_SignBlockPayload(IdleTask, auth, clients,
                                                         ctx.clientName, args.SenderAddress)
        t1 == IF t0.pc = "calling" /\ ~args.checkOk
              THEN [t0 EXCEPT !.pc = "done", !.status = "Invalid"]
              ELSE t0
    IN  ProxyOutcome(RunCall(t1, clients, cl, resp), t1.pc = "calling", args)

\* EthProxyService.SignTransaction and OpsignerProxyService.SignBlockPayload
\* from the call to the return: the lookup under the verified client name, then
\* Call with the method and the arguments as they came
ProxyServe(op, auth, clients, cl, ctx, args, resp) ==
    LET t0 == IF op = "SignTransaction"
              THEN EthProxyService_SignTransaction(IdleTask, auth, clients, ctx.clientName)
              ELSE OpsignerProxyService_SignBlockPayload(IdleTask, auth, clients,
                                                         ctx.clientName, args.SenderAddress)
    IN  ProxyOutcome(RunCall(t0, clients, cl, resp), t0.pc = "calling", args)

\* the registration goroutine when no opsignerproxy_serveSigner call is being served
IdleReg == [pc |-> "idle", wsClient |-> Nil, seen |-> <<>>, ok |-> FALSE, err |-> FALSE]

\* variant of WSService.ServeSigner that acknowledges a call without a connection
ServeSignerAlwaysTrue(r, clients, wsClient) ==
    IF wsClient = Nil
    THEN [r EXCEPT !.pc = "done", !.ok = TRUE, !.err = FALSE]
    ELSE [r EXCEPT !.pc = "adding", !.wsClient = wsClient, !.seen = clients]

\* WSService.ServeSigner up to the point where AddClient has read the registry:
\* without a connection on the call context it returns (false, error)
WSService_ServeSigner(r, clients, wsClient) ==
    IF wsClient = Nil
    THEN [r EXCEPT !.pc = "done", !.ok = FALSE, !.err = TRUE]
    ELSE [r EXCEPT !.pc = "adding", !.wsClient = wsClient, !.seen = clients]

\* WSService.ServeSigner from the store of AddClient to its return of (true, nil)
ServeSignerAdded(r) == [r EXCEPT !.pc = "done", !.ok = TRUE, !.err = FALSE]

\* ------------------------------------------------- the reconnecting ProxyClient
\* Durations are in milliseconds.

\* wsMaxBackoff = 5 * time.Minute
wsMaxBackoff == 300000

\* wsReadinessInterval = time.Minute
wsReadinessInterval == 60000

\* the InitialInterval of backoff.NewExponentialBackOff(), 500 * time.Millisecond
DefaultInitialInterval == 500

\* NewProxyClient: the fields of a ProxyClient, and Start not yet running.
\* done is the state of the channel p.done (TRUE once the shutdown signal is
\* raised), client the connection last dialed ("none", "open" or "closed");
\* currentInterval and numTries are the state of the backoff and of the retry
\* loop of connectWithBackoff, next and prev the durations of the last two waits
\* of that loop (0: none), timer the duration the timer of serveSignerLoop is set
\* to, waited the duration the timer had run for when it last fired, err
\* whether the last announcement returned an error, live the number of
\* connections the client has dialed and not closed
NewProxyClient ==
    [pc |-> "top", done |-> FALSE, observed |-> FALSE, client |-> "none",
     connRetryMaxBackoff |-> wsMaxBackoff, pingInterval |-> wsReadinessInterval,
     currentInterval |-> 0, numTries |-> 0, failed |-> 0, next |-> 0, prev |-> 0,
     timer |-> 0, waited |-> 0, isFirstCall |-> TRUE, err |-> FALSE, live |-> 0]

\* rpc.Client.Close on the connection the client holds; closing twice is harmless
Close(p) ==
    [p EXCEPT !.client = "closed", !.live = IF p.client = "open" THEN @ - 1 ELSE @]

\* a counter of the retry loop, counted up to MaxCounted
CountTry(n) == IF n < MaxCounted THEN n + 1 ELSE n

\* ExponentialBackOff.incrementCurrentInterval with the default Multiplier 1.5:
\* float64(cur) >= float64(max) / 1.5 sets the interval to max
incrementCurrentInterval(cur, max) ==
    IF 3 * cur >= 2 * max THEN max ELSE (3 * cur) \div 2

\* getRandomValueFromInterval with the default RandomizationFactor 0.5: the
\* draw yields any duration from cur - cur/2 to cur + cur/2; the two ends and
\* the middle stand for the range
RandomValuesFromInterval(cur) == {cur - cur \div 2, cur, cur + cur \div 2}

\* connectWithBackoff entered with the backoff of the previous connection
connectKeepingBackoff(p) ==
    [p EXCEPT !.pc = "dial", !.numTries = 0, !.failed = 0, !.next = 0, !.prev = 0,
              !.currentInterval = IF @ = 0 THEN DefaultInitialInterval ELSE @]

\* connectWithBackoff up to its first dial: a new ExponentialBackOff, which
\* backoff.Retry resets to its InitialInterval, and no attempt made yet
connectWithBackoff(p) ==
    [p EXCEPT !.pc = "dial", !.numTries = 0, !.failed = 0, !.next = 0, !.prev = 0,
              !.currentInterval = DefaultInitialInterval]

\* Start with no select on p.done at the top of its loop
StartIgnoringDone(p) == connectWithBackoff(p)

\* the top of the loop of Start: return when p.done is readable, connect
\* otherwise
Start(p) ==
    IF p.done
    THEN [p EXCEPT !.pc = "returned", !.observed = TRUE]
    ELSE connectWithBackoff(p)

\* a connect that gives up at the first failed dial
dialOnce(p, ok, next) ==
    IF ok
    THEN [p EXCEPT !.pc = "register", !.client = "open", !.live = @ + 1,
                   !.numTries = CountTry(@)]
    ELSE [p EXCEPT !.pc = "returned", !.numTries = CountTry(@), !.failed = CountTry(@)]

\* one round of backoff.Retry: the operation dial, and on its failure
\* NextBackOff (a randomized value around the current interval, then the
\* interval incremented), notify, and the timer started for that value
dial(p, ok, next) ==
    IF ok
    THEN [p EXCEPT !.pc = "register", !.client = "open", !.live = @ + 1,
                   !.numTries = CountTry(@)]
    ELSE [p EXCEPT !.pc = "wait", !.numTries = CountTry(@), !.failed = CountTry(@),
                   !.prev = p.next, !.next = next,
                   !.currentInterval =
                       incrementCurrentInterval(@, p.connRetryMaxBackoff)]

\* serveSignerLoop entered with its timer set to the ping interval
serveSignerLoopWaitingFirst(p) ==
    [p EXCEPT !.pc = "select", !.timer = p.pingInterval, !.isFirstCall = TRUE]

\* serveSignerLoop up to its select: time.NewTimer(0)
serveSignerLoop(p) ==
    [p EXCEPT !.pc = "select", !.timer = 0, !.isFirstCall = TRUE]

\* a registration whose failure leaves the new connection open
registerLeaking(p, ok) ==
    IF ok
    THEN serveSignerLoop(p)
    ELSE [p EXCEPT !.pc = "blocked"]

\* the RegisterName loop of connectWithBackoff and what Start does with its
\* result: p.client = c and serveSignerLoop, or c.Close() and the send on
\* p.done
registerAPIs(p, ok) ==
    IF ok
    THEN serveSignerLoop(p)
    ELSE [Close(p) EXCEPT !.pc = "blocked"]

\* an announcement whose error ends serveSignerLoop with the connection open
announceLeaking(p, ok) ==
    IF ok
    THEN [p EXCEPT !.pc = "select", !.err = FALSE, !.isFirstCall = FALSE,
                   !.timer = p.pingInterval]
    ELSE [p EXCEPT !.pc = "top", !.err = TRUE]

\* serveSignerLoop from the return of CallContext: timer.Reset(p.pingInterval),
\* or p.client.Close() and the return of the error to Start
announce(p, ok) ==
    IF ok
    THEN [p EXCEPT !.pc = "select", !.err = FALSE, !.isFirstCall = FALSE,
                   !.timer = p.pingInterval]
    ELSE [Close(p) EXCEPT !.pc = "top", !.err = TRUE]

\* ------------------------------------------------------------------ inputs

\* call contexts: the verified identity (ClientInfo.ClientName) and the peer
\* host (PeerInfo.HTTP.Host)
Ctxs ==
    {[clientName |-> n, host |-> ""] : n \in {"", "alice", "bob", "Alice"}}
    \cup {[clientName |-> "", host |-> h] : h \in {"alice", "//alice", ":"}}
    \cup {[clientName |-> "bob", host |-> "//alice"]}

\* failures of the collaborators, at most one per call
Faults == {"none", "txdata", "sign", "withsig", "sender", "marshal", "remote"}

Env(f) == [fault |-> f, remote |-> IF f = "remote" THEN "err" ELSE "ok"]

TxArgs ==
    [From : {Nil, AA}, To : {Nil, AA, BB, CC},
     Value : {Nil, <<2>>, <<3>>}, checkOk : BOOLEAN]

BpArgs ==
    [SenderAddress : {Nil, AA, BB, CC},
     ChainID : {BigInt(0, 10), BigInt(0, 11), BigInt(1, 10)}, checkOk : BOOLEAN]

NoCall ==
    [op |-> "none", ctx |-> [clientName |-> "", host |-> ""], args |-> <<>>,
     fault |-> "none",
     out |-> Outcome("", [ok |-> FALSE, ac |-> NoEntry], FALSE, "", Nil, "none", "", 0)]

\* ------------------------------------------------------------------ actions

\* a client calls eth_signTransaction on the signing service
SignTransaction ==
    \E ctx \in Ctxs, args \in TxArgs, f \in Faults :
        /\ last.op = "none"
        /\ last' = [op |-> "SignTransaction", ctx |-> ctx, args |-> args, fault |-> f,
                    out |-> EthService_SignTransaction(config, pcClients, ctx, args, Env(f))]
        /\ config' = TableAfterCall(config, last'.out.lookup)
        /\ UNCHANGED <<pcClients, routerVars, pcl>>

\* a client calls opsigner_signBlockPayload on the signing service
SignBlockPayload ==
    \E ctx \in Ctxs, args \in BpArgs, f \in {"none", "txdata", "sign", "remote"} :
        /\ last.op = "none"
        /\ last' = [op |-> "SignBlockPayload", ctx |-> ctx, args |-> args, fault |-> f,
                    out |-> OpsignerSerivce_SignBlockPayload(config, pcClients, ctx, args, Env(f))]
        /\ config' = TableAfterCall(config, last'.out.lookup)
        /\ UNCHANGED <<pcClients, routerVars, pcl>>

\* a signer calls opsignerproxy_serveSigner on the signing service
PcServeSigner ==
    \E wsClient \in {Nil, <<"h1">>} :
        /\ last.op = "none"
        /\ Len(pcClients) < MaxPcClients
        /\ pcClients' = OpsignerproxyService_ServeSigner(pcClients, wsClient)
        /\ UNCHANGED <<config, last, routerVars, pcl>>

\* the response of the completed call is handed back to the RPC server
Reply ==
    /\ last.op # "none"
    /\ last' = NoCall
    /\ UNCHANGED <<config, pcClients, routerVars, pcl>>

\* the Close calls counted on a connection: counting stops one above MaxCloses
CountClose(n, closed) ==
    IF n + closed > MaxCloses + 1 THEN MaxCloses + 1 ELSE n + closed

\* a client calls eth_signTransaction or opsigner_signBlockPayload on the router
ProxyStart(t) ==
    \E op \in {"SignTransaction", "SignBlockPayload"}, name \in {"", "alice", "bob"},
       sender \in {Nil, AA, CC} :
        /\ task[t].pc = "idle"
        /\ op = "SignTransaction" => sender = Nil
        /\ task' = [task EXCEPT ![t] =
                IF op = "SignTransaction"
                THEN EthProxyService_SignTransaction(IdleTask, config, wsClients, name)
                ELSE OpsignerProxyService_SignBlockPayload(IdleTask, config, wsClients,
                                                           name, sender)]
        /\ IF task'[t].method # ""
           THEN mu = "none" /\ mu' = getCopyLocking(mu, t)
           ELSE mu' = mu
        /\ UNCHANGED <<signVars, wsClients, closes, reg, pcl>>

\* the CallContext of task t returns, and Call runs on to its next CallContext
\* or to its return
CallReturn(t) ==
    \E kind \in {"ok", "rpc", "transport"} :
        /\ task[t].pc = "calling"
        /\ LET h == task[t].snap[task[t].i]
               step == CallStep(task[t], wsClients, Response(kind, h))
           IN  /\ wsClients' = step.clients
               /\ closes' = [closes EXCEPT ![h] = CountClose(@, step.closed)]
               /\ task' = [task EXCEPT ![t] = step.task]
        /\ IF IsProtocolLevel(Response(kind, task[t].snap[task[t].i]))
           THEN mu' = mu
           ELSE mu = "none" /\ mu' = removeClientLocking(mu, t)
        /\ UNCHANGED <<signVars, reg, pcl>>

\* the handler of task t returns its result to the client
ProxyReturn(t) ==
    /\ task[t].pc = "done"
    /\ task' = [task EXCEPT ![t] = IdleTask]
    /\ UNCHANGED <<signVars, wsClients, closes, mu, reg, pcl>>

\* WSService.ServeSigner: a signer calls opsignerproxy_serveSigner on the
\* router over the connection wsClient
ServeSigner ==
    \E wsClient \in {Nil} \cup {<<h>> : h \in Handles} :
        IF wsClient = Nil
        THEN UNCHANGED vars
        ELSE LET h == wsClient[1]
             IN  /\ closes[h] < MaxCloses
                 /\ Len(wsClients) <= MaxHandles
                 /\ wsClients' = AddClient(wsClients, h)
                 /\ UNCHANGED <<signVars, task, closes, mu, reg, pcl>>

\* the call contexts and the requests the router is called with: the router
\* reads the verified identity alone, and of the request the senderAddress
RouterCtxs == {[clientName |-> n, host |-> ""] : n \in {"", "alice", "bob"}}

RouterTxArgs == {a \in TxArgs : a.From = Nil /\ a.To # AA}

RouterBpArgs == {a \in BpArgs : a.ChainID # BigInt(1, 10)}

\* how each registered connection answers a CallContext: with a result, with
\* an RPC error, or not at all
Responses(clients) ==
    {resp \in [Handles -> {"ok", "rpc", "transport"}] :
        \A h \in Handles \ Range(clients) : resp[h] = "ok"}

\* a client calls eth_signTransaction on the router, which serves the call to
\* its end
ProxySignTransaction ==
    \E ctx \in RouterCtxs, args \in RouterTxArgs, resp \in Responses(wsClients) :
        /\ last.op = "none"
        /\ LET out == ProxyServe("SignTransaction", config, wsClients, closes,
                                 ctx, args, resp)
           IN  /\ last' = [op |-> "ProxySignTransaction", ctx |-> ctx, args |-> args,
                           fault |-> "none", resp |-> resp, out |-> out]
               /\ wsClients' = out.clients
               /\ closes' = out.closes
        /\ UNCHANGED <<config, pcClients, task, mu, reg, pcl>>

\* a client calls opsigner_signBlockPayload on the router, which serves the
\* call to its end
ProxySignBlockPayload ==
    \E ctx \in RouterCtxs, args \in RouterBpArgs, resp \in Responses(wsClients) :
        /\ last.op = "none"
        /\ LET out == ProxyServe("SignBlockPayload", config, wsClients, closes,
                                 ctx, args, resp)
           IN  /\ last' = [op |-> "ProxySignBlockPayload", ctx |-> ctx, args |-> args,
                           fault |-> "none", resp |-> resp, out |-> out]
               /\ wsClients' = out.clients
               /\ closes' = out.closes
        /\ UNCHANGED <<config, pcClients, task, mu, reg, pcl>>

\* a signer calls opsignerproxy_serveSigner on the router: the handler runs up to
\* the read of the registry in AddClient, which takes no lock
ServeSignerEnter ==
    \E wsClient \in {Nil} \cup {<<h>> : h \in Handles} :
        /\ reg.pc = "idle"
        /\ wsClient # Nil => closes[wsClient[1]] < MaxCloses
        /\ reg' = WSService_ServeSigner(reg, wsClients, wsClient)
        /\ UNCHANGED <<signVars, wsClients, task, closes, mu, pcl>>

\* AddClient stores the registry it computed from what it read
AddClientStore ==
    /\ reg.pc = "adding"
    /\ wsClients' = AddClient(reg.seen, reg.wsClient[1])
    /\ reg' = ServeSignerAdded(reg)
    /\ UNCHANGED <<signVars, task, closes, mu, pcl>>

\* the result of ServeSigner is handed back to the RPC server
ServeSignerReturn ==
    /\ reg.pc = "done"
    /\ reg' = IdleReg
    /\ UNCHANGED <<signVars, wsClients, task, closes, mu, pcl>>

NextSign == SignTransaction \/ SignBlockPayload \/ PcServeSigner \/ Reply

RouterAtRest ==
    /\ wsClients = <<>>
    /\ task = [t \in Tasks |-> IdleTask]
    /\ closes = [h \in Handles |-> 0]
    /\ mu = "none"
    /\ reg = IdleReg

InitSign ==
    /\ config \in Tables
    /\ pcClients = <<>>
    /\ last = NoCall
    /\ RouterAtRest
    /\ pcl = NewProxyClient

Init ==
    /\ config = <<Entry1, Entry2>>
    /\ pcClients = <<>>
    /\ last = NoCall
    /\ RouterAtRest
    /\ pcl = NewProxyClient

NextRouter ==
    \/ \E t \in Tasks : ProxyStart(t) \/ CallReturn(t) \/ ProxyReturn(t)
    \/ ServeSigner

SignAtRest == pcClients = <<>> /\ last = NoCall

\* the signing service and the router are two processes that share no state:
\* each is explored from the initial state of the other
Next == (SignAtRest /\ NextRouter) \/ (RouterAtRest /\ NextSign)

Spec == Init /\ [][Next]_vars

\* the router serving one request at a time, with registrations between requests
NextSeq ==
    \/ \E t \in Tasks :
          /\ \A u \in Tasks \ {t} : task[u].pc = "idle"
          /\ ProxyStart(t) \/ CallReturn(t) \/ ProxyReturn(t)
    \/ (\A u \in Tasks : task[u].pc = "idle") /\ ServeSigner

SpecSeq == Init /\ [][NextSeq]_vars

SpecSign == InitSign /\ [][NextSign]_vars

\* the router serving requests on one goroutine while another one serves
\* opsignerproxy_serveSigner, the steps of AddClient interleaved with those of Call
NextRace ==
    \/ ProxyStart("t1") \/ CallReturn("t1") \/ ProxyReturn("t1")
    \/ ServeSignerEnter \/ AddClientStore \/ ServeSignerReturn

SpecRace == Init /\ [][NextRace]_vars

\* the CallContext of task t returns a result or an error of the remote peer,
\* and Call returns it
CallAnswer(t) ==
    \E kind \in {"ok", "rpc"} :
        /\ task[t].pc = "calling"
        /\ LET h == task[t].snap[task[t].i]
               step == CallStep(task[t], wsClients, Response(kind, h))
           IN  task' = [task EXCEPT ![t] = step.task]
        /\ UNCHANGED <<signVars, wsClients, closes, mu, reg, pcl>>

\* the CallContext of task t fails at the transport: Call enters removeClient,
\* which waits for the mutex and takes it
RemoveClientLock(t) ==
    /\ task[t].pc = "calling"
    /\ mu = "none"
    /\ LET h == task[t].snap[task[t].i]
       IN  task' = [task EXCEPT ![t] =
                       removeClientEnter(task[t], Response("transport", h))]
    /\ mu' = Lock(mu, t)
    /\ UNCHANGED <<signVars, wsClients, closes, reg, pcl>>

\* removeClient of task t cuts the handle out, starts the Close and unlocks; Call
\* goes on to its next CallContext or returns
RemoveClientUnlock(t) ==
    /\ task[t].pc = "removing"
    /\ LET h == task[t].snap[task[t].i]
           step == CallStep([task[t] EXCEPT !.pc = "calling"], wsClients, task[t].err)
       IN  /\ wsClients' = step.clients
           /\ closes' = [closes EXCEPT ![h] = CountClose(@, step.closed)]
           /\ task' = [task EXCEPT ![t] = step.task]
    /\ mu' = Unlock(mu)
    /\ UNCHANGED <<signVars, reg, pcl>>

\* the router with the critical section of removeClient as steps of its own:
\* requests on two goroutines, and a third one serving opsignerproxy_serveSigner
NextLock ==
    \/ \E t \in Tasks :
          \/ ProxyStart(t) \/ CallAnswer(t) \/ RemoveClientLock(t)
          \/ RemoveClientUnlock(t) \/ ProxyReturn(t)
    \/ ServeSignerEnter \/ AddClientStore \/ ServeSignerReturn

SpecLock == Init /\ [][NextLock]_vars

\* the router serving whole requests one after the other, with registrations
\* between them
NextForward ==
    \/ ProxySignTransaction \/ ProxySignBlockPayload \/ Reply
    \/ (last.op = "none" /\ ServeSigner)

SpecForward == Init /\ [][NextForward]_vars

\* the shutdown signal is raised: p.done becomes readable, and stays so
Shutdown ==
    /\ ~pcl.done
    /\ pcl' = [pcl EXCEPT !.done = TRUE]
    /\ UNCHANGED <<signVars, routerVars>>

\* Start, at the top of its loop
StartSelect ==
    /\ pcl.pc = "top"
    /\ pcl' = Start(pcl)
    /\ UNCHANGED <<signVars, routerVars>>

\* one attempt of the retry loop: the dialer succeeds or fails
Dial ==
    \E ok \in BOOLEAN, next \in RandomValuesFromInterval(pcl.currentInterval) :
        /\ pcl.pc = "dial"
        /\ pcl' = dial(pcl, ok, next)
        /\ UNCHANGED <<signVars, routerVars>>

\* the timer of the retry loop fires; its select waits on context.Background()
WaitDone ==
    /\ pcl.pc = "wait"
    /\ pcl' = [pcl EXCEPT !.pc = "dial"]
    /\ UNCHANGED <<signVars, routerVars>>

\* the APIs are registered on the new connection, or one of them is refused
Register ==
    \E ok \in BOOLEAN :
        /\ pcl.pc = "register"
        /\ pcl' = registerAPIs(pcl, ok)
        /\ UNCHANGED <<signVars, routerVars>>

\* the select of serveSignerLoop takes <-timer.C and the announcement is sent
TimerFires ==
    /\ pcl.pc = "select"
    /\ pcl' = [pcl EXCEPT !.pc = "announce", !.waited = pcl.timer]
    /\ UNCHANGED <<signVars, routerVars>>

\* the select of serveSignerLoop takes <-p.done: return nil, the deferred Close
SelectDone ==
    /\ pcl.pc = "select"
    /\ pcl.done
    /\ pcl' = [Close(pcl) EXCEPT !.pc = "top", !.observed = TRUE]
    /\ UNCHANGED <<signVars, routerVars>>

\* the CallContext of opsignerproxy_serveSigner returns
AnnounceReturn ==
    \E ok \in BOOLEAN :
        /\ pcl.pc = "announce"
        /\ pcl' = announce(pcl, ok)
        /\ UNCHANGED <<signVars, routerVars>>

\* Start at its send on p.done after a failed registration: nothing receives
\* from the channel, and a send on a closed channel panics
BlockedPanic ==
    /\ pcl.pc = "blocked"
    /\ pcl.done
    /\ pcl' = [pcl EXCEPT !.pc = "panicked"]
    /\ UNCHANGED <<signVars, routerVars>>

NextClient ==
    \/ Shutdown \/ StartSelect \/ Dial \/ WaitDone \/ Register
    \/ TimerFires \/ SelectDone \/ AnnounceReturn \/ BlockedPanic

\* the goroutine running ProxyClient.Start, and the shutdown signal
SpecClient == Init /\ [][NextClient]_vars

\* every step of Start that is enabled is taken: a dial, a CallContext and a
\* timer end, and a select that p.done keeps ready takes it
SpecClientFair ==
    /\ SpecClient
    /\ WF_vars(StartSelect) /\ WF_vars(Dial) /\ WF_vars(WaitDone)
    /\ WF_vars(Register) /\ WF_vars(TimerFires) /\ SF_vars(SelectDone)
    /\ WF_vars(AnnounceReturn) /\ WF_vars(BlockedPanic)

\* ------------------------------------------------------------------ properties

\* the address the handler of the finished call passed to the policy lookup
LastAddress ==
    IF last.op = "SignBlockPayload" THEN last.args.SenderAddress ELSE Nil

\* C1: a call invokes SignDigest or forwards the request only if the policy
\* lookup made earlier in the same call returned an entry, on the signing
\* service (signature or forward to the proxy client) and on the router (entry
\* into SignerClients.Call)
C1_LookupBeforeSignOrForward ==
    /\ (last.out.signKey # Nil \/ last.out.forwarded)
          => GetAuthConfigForClient(config, last.out.clientName, LastAddress).ok
    /\ \A t \in Tasks :
          task[t].method # ""
             => GetAuthConfigForClient(config, task[t].name, task[t].sender).ok

\* C1, reached: a request the router is forwarding to a registered signer
C1_Witness ==
    \E t \in Tasks : task[t].pc = "calling" /\ task[t].snap[task[t].i] \in Range(wsClients)

\* C2: when CallContext on a handle returns a protocol-level error, Call returns
\* that error as it is, does not go on to a later handle of its snapshot, and
\* the step neither removes a handle from the registry nor closes one
C2_RpcErrorReturnedHandleKept ==
    /\ [](\A t \in Tasks :
            task[t].err.kind = "rpc"
               => /\ task[t].pc = "done"
                  /\ task[t].ret = task[t].err
                  /\ task[t].err.from = task[t].snap[task[t].i])
    /\ [][\A t \in Tasks :
            (task[t].pc = "calling" /\ task'[t].err.kind = "rpc")
               => (wsClients' = wsClients /\ closes' = closes)]_vars

\* C2, reached: a protocol-level error from a handle that is still registered,
\* with a later handle of the snapshot left uncalled
C2_Witness ==
    \E t \in Tasks :
        /\ task[t].err.kind = "rpc"
        /\ task[t].i < Len(task[t].snap)
        /\ task[t].snap[task[t].i] \in Range(wsClients)

\* C3: with one request at a time, when the first K handles of a snapshot of N
\* fail at the transport and handle K+1 answers, Call returns that answer, the
\* K handles are removed (and closed) and the other N-K are the registry
C3_FailoverRemovesTheFailedOnly ==
    \A t \in Tasks :
        (task[t].pc = "done" /\ task[t].ret.kind = "ok")
           => LET K == task[t].i - 1
                  N == Len(task[t].snap)
              IN  /\ task[t].ret.from = task[t].snap[K + 1]
                  /\ wsClients = SubSeq(task[t].snap, K + 1, N)
                  /\ \A j \in 1..K : closes[task[t].snap[j]] >= 1

\* C3, reached: the first handle of two failed and the second answered
C3_Witness ==
    \E t \in Tasks :
        /\ task[t].pc = "done" /\ task[t].ret.kind = "ok"
        /\ Len(task[t].snap) = 2 /\ task[t].i = 2

\* C4: with one request at a time, when all N >= 1 handles of the snapshot fail
\* at the transport, Call returns NoClientsAvailable and none of the N is
\* registered any more
C4_AllFailedAllRemoved ==
    \A t \in Tasks :
        (task[t].pc = "done" /\ Len(task[t].snap) >= 1
                             /\ task[t].i = Len(task[t].snap) + 1)
           => /\ task[t].ret = NoClientsAvailableError
              /\ wsClients = <<>>
              /\ \A j \in 1..Len(task[t].snap) : closes[task[t].snap[j]] >= 1

\* C4, reached: both handles of a snapshot of two failed
C4_Witness ==
    \E t \in Tasks :
        /\ task[t].pc = "done" /\ Len(task[t].snap) = 2 /\ task[t].i = 3
        /\ task[t].ret = NoClientsAvailableError

\* entry i of the table answers the query (name, addr)
Matches(i, name, addr) ==
    /\ config[i].ClientName = name
    /\ addr # Nil => config[i].FromAddress = addr

\* C5: GetAuthConfigForClient returns the first entry, in table order, whose
\* clientName is the name and, when an address is supplied, whose fromAddress is
\* the address; it returns an error when the name is empty or no entry matches
C5_FirstMatchInTableOrder ==
    last.op # "none"
       => LET name == last.out.clientName
              hits == {i \in 1..Len(config) : Matches(i, name, LastAddress)}
          IN  IF name = "" \/ hits = {}
              THEN ~last.out.lookup.ok
              ELSE /\ last.out.lookup.ok
                   /\ \E i \in hits :
                         /\ \A j \in hits : i <= j
                         /\ last.out.lookup.ac = config[i]

\* C5, reached: the entry returned is the second of the table, the first one
\* carrying the same client name and another address
C5_Witness ==
    /\ last.op = "SignBlockPayload" /\ last.out.lookup.ok
    /\ Len(config) = 2
    /\ config[1].ClientName = last.out.clientName
    /\ config[1].FromAddress # last.args.SenderAddress
    /\ last.out.lookup.ac = config[2]

\* the finished call was handled by this process: the lookup returned an entry
\* and no proxy client took the request over
HandledLocally(op) ==
    last.op = op /\ last.out.lookup.ok /\ ~last.out.forwarded

\* C6: SignBlockPayload calls SignDigest or returns a signature only when the
\* senderAddress of the request is the fromAddress of the matched entry and the
\* chainID of the request is, as a number, the chainID of the matched entry
C6_SenderAndChainMatch ==
    (last.op = "SignBlockPayload" /\ ~last.out.forwarded
        /\ (last.out.signKey # Nil \/ last.out.status = "ok"))
       => /\ last.out.lookup.ok
          /\ last.args.SenderAddress = last.out.lookup.ac.FromAddress
          /\ last.args.ChainID = BigInt(0, last.out.lookup.ac.ChainID)

\* the text s spells the address a: "0x" or "0X", then the digits of a in
\* either case
SpellsAddress(s, a) ==
    /\ Len(s) = Len(a) + 2
    /\ s[1] = "0" /\ s[2] \in {"x", "X"}
    /\ \A k \in 1..Len(a) : IsHexChar(s[k + 2]) /\ HexVal(s[k + 2]) = a[k]

\* the address a is on the list, whatever the case of the letters
IsListed(list, a) ==
    a # Nil /\ \E j \in 1..Len(list) : SpellsAddress(list[j], a)

\* C7, as stated: a valid transaction request with a to address, handled
\* locally under an entry with a non-empty toAddresses list, is rejected with
\* UnauthorizedTransaction and without a SignDigest call if and only if its to
\* address is not a case-insensitive member of the list
C7_RejectedIffNotListed ==
    (HandledLocally("SignTransaction") /\ last.args.checkOk /\ last.args.To # Nil
        /\ Len(last.out.lookup.ac.ToAddresses) > 0)
       => ((last.out.status = "UnauthorizedTransaction" /\ last.out.signKey = Nil)
              <=> ~IsListed(last.out.lookup.ac.ToAddresses, last.args.To))

\* C7, amended: under an entry with a non-empty toAddresses list no request
\* whose to address is not a case-insensitive member is signed; a valid request
\* with a to address fails the allowlist check (UnauthorizedTransaction "to
\* address not authorized") if and only if its to address is not a member, a
\* member remaining subject to the checks that follow
C7_AllowlistCheck ==
    (HandledLocally("SignTransaction") /\ Len(last.out.lookup.ac.ToAddresses) > 0)
       => LET listed == IsListed(last.out.lookup.ac.ToAddresses, last.args.To)
          IN  /\ ~listed => (last.out.signKey = Nil /\ last.out.status # "ok")
              /\ (last.args.checkOk /\ last.args.To # Nil)
                    => ((/\ last.out.status = "UnauthorizedTransaction"
                         /\ last.out.msg = "to address not authorized"
                         /\ last.out.signKey = Nil)
                           <=> ~listed)

\* C7, reached: a request refused by the allowlist check
C7_Witness ==
    /\ HandledLocally("SignTransaction")
    /\ last.out.status = "UnauthorizedTransaction"
    /\ last.out.msg = "to address not authorized"
    /\ ~IsListed(last.out.lookup.ac.ToAddresses, last.args.To)

\* the finished call reached the value check of SignTransaction
ReachedValueCheck ==
    /\ HandledLocally("SignTransaction") /\ last.args.checkOk
    /\ Len(last.out.lookup.ac.ToAddresses) > 0
          => IsListed(last.out.lookup.ac.ToAddresses, last.args.To)

\* C8: under an entry that sets a (well-formed) maxValue, a request whose value
\* is above it is never signed and, when it reaches the value check, fails with
\* UnauthorizedTransaction; a request whose value is at most the cap does not
\* fail the value check
C8_ValueCap ==
    (HandledLocally("SignTransaction") /\ last.args.Value # Nil
        /\ DecodeBigOk(last.out.lookup.ac.MaxValue))
       => LET value == last.args.Value[1]
              max == MaxValueToInt(last.out.lookup.ac).n
          IN  /\ value > max
                    => /\ last.out.signKey = Nil /\ last.out.status # "ok"
                       /\ ReachedValueCheck
                             => /\ last.out.status = "UnauthorizedTransaction"
                                /\ last.out.msg = "value exceeds maximum"
              /\ value <= max => last.out.msg # "value exceeds maximum"

\* C8, reached: a request refused for its value, and the cap is a number below it
C8_Witness ==
    /\ HandledLocally("SignTransaction")
    /\ last.out.status = "UnauthorizedTransaction"
    /\ last.out.msg = "value exceeds maximum"
    /\ last.args.Value[1] = MaxValueToInt(last.out.lookup.ac).n + 1

\* the number of times the handle h is in the registry
Count(clients, h) == Cardinality({i \in 1..Len(clients) : clients[i] = h})

\* C9: a Close is started only by a step that takes the handle out of the
\* registry, a removal attempt on a handle that is not registered leaves the
\* registry and the connections alone, and once a Call has passed a handle on a
\* transport failure that handle has been closed, and no more often than it was
\* registered
C9_RemovalIdempotent ==
    /\ [][\A h \in Handles :
            /\ closes'[h] # closes[h]
                  => /\ closes'[h] = closes[h] + 1
                     /\ Count(wsClients', h) = Count(wsClients, h) - 1
            /\ \A t \in Tasks :
                  (/\ task[t].pc = "calling" /\ task[t].snap[task[t].i] = h
                   /\ task'[t].err.kind = "transport" /\ task'[t].i = task[t].i + 1
                   /\ h \notin Range(wsClients))
                     => (wsClients' = wsClients /\ closes' = closes)]_vars
    /\ [](\A h \in Handles, t \in Tasks :
            (\E j \in 1..(task[t].i - 1) : task[t].snap[j] = h)
               => (closes[h] >= 1 /\ closes[h] <= MaxCloses))

\* C9, reached: two Calls have both failed at the transport on the same handle,
\* and it was closed once
C9_Witness ==
    \E h \in Handles :
        /\ \A t \in Tasks : task[t].snap = <<h>> /\ task[t].i = 2
        /\ closes[h] = 1

C11_EmptyThenRegistered ==
    /\ [][\A t \in Tasks :
            (task[t].pc = "idle" /\ task'[t].method # "")
               => IF wsClients = <<>>
                  THEN /\ task'[t].pc = "done" /\ task'[t].i = 0
                       /\ task'[t].err = NoResponse
                       /\ task'[t].ret = NoClientsAvailableError
                  ELSE /\ task'[t].pc = "calling"
                       /\ task'[t].snap[task'[t].i] = wsClients[1]]_vars
    /\ [](\A t \in Tasks :
            (task[t].pc = "done" /\ task[t].err.kind = "ok")
               => task[t].ret = Response("ok", task[t].snap[task[t].i]))

\* C11, reached: the one registered signer answered a forwarded call
C11_Witness ==
    \E t \in Tasks, h \in Handles :
        /\ task[t].pc = "done" /\ task[t].snap = <<h>>
        /\ task[t].ret = Response("ok", h)

\* C12: with Calls and registrations interleaved the registry holds the
\* registered handles that no Call removed: a handle whose ServeSigner has just
\* returned true and that was not removed is registered, and a handle that was
\* removed and closed, and has not announced itself since, is not
C12_RegistryConsistent ==
    /\ (reg.pc = "done" /\ reg.ok /\ closes[reg.wsClient[1]] = 0)
          => reg.wsClient[1] \in Range(wsClients)
    /\ \A h \in Handles :
          (closes[h] >= MaxCloses /\ ~(reg.pc = "done" /\ reg.wsClient = <<h>>))
             => h \notin Range(wsClients)

\* C13: while a CallContext of a Call is in flight nobody holds the mutex of the
\* registry on behalf of that Call: getCopy and removeClient unlock before they
\* return
C13_NoLockDuringCall ==
    (\E t \in Tasks : task[t].pc = "calling") => mu = "none"

\* C13, reached: two Calls have their CallContext in flight at the same time,
\* the second having taken its snapshot while the first was calling
C13_Witness ==
    \A t \in Tasks : task[t].pc = "calling"

\* C14: ServeSigner called without a connection returns (false, error) and
\* leaves the registry as it is; called on a connection it returns (true, nil)
\* with the handle of that connection registered
C14_ServeSignerBinds ==
    /\ [][(reg.pc = "idle" /\ reg'.pc = "done")
            => (~reg'.ok /\ reg'.err /\ wsClients' = wsClients)]_vars
    /\ [][(reg.pc = "adding" /\ reg'.pc = "done")
            => (reg'.ok /\ ~reg'.err /\ reg.wsClient[1] \in Range(wsClients'))]_vars
    /\ [](reg.pc = "done" => (reg.ok <=> reg.wsClient # Nil))

\* C14, reached: ServeSigner has returned (true, nil) for the second connection
\* to register
C14_Witness ==
    /\ reg.pc = "done" /\ reg.ok
    /\ Len(wsClients) = 2 /\ wsClients[2] = reg.wsClient[1]

\* C15: with a dialer that fails its first M attempts and then succeeds,
\* connectWithBackoff makes exactly M+1 attempts, every wait between two
\* attempts is at least as long as the wait before it and none is longer than
\* connRetryMaxBackoff
C15_WaitsNonDecreasingUpToCap ==
    /\ pcl.pc = "register" /\ pcl.numTries < MaxCounted
           => pcl.numTries = pcl.failed + 1
    /\ pcl.pc = "wait"
           => /\ pcl.next <= pcl.connRetryMaxBackoff
              /\ pcl.prev > 0 => pcl.prev <= pcl.next

\* C16: the first announcement on a connection is sent with no wait after the
\* registration of the APIs, every later one a ping interval after the
\* successful one before it, and while shutdown is not signalled a client
\* waiting in serveSignerLoop does send the next announcement
C16_AnnounceAtOnceThenEveryPing ==
    /\ [][pcl.pc = "register" /\ pcl'.pc = "select"
              => pcl'.timer = 0 /\ pcl'.isFirstCall]_vars
    /\ [][pcl.pc = "select" /\ pcl'.pc = "announce"
              => pcl'.waited = IF pcl.isFirstCall THEN 0 ELSE pcl.pingInterval]_vars
    /\ [][pcl.pc = "announce" /\ pcl'.pc = "select"
              => pcl'.timer = pcl.pingInterval /\ ~pcl'.isFirstCall]_vars
    /\ (pcl.pc = "select" /\ ~pcl.done) ~> (pcl.pc = "announce" \/ pcl.done)

\* a second announcement on a connection, sent a ping interval after the first
C16_Witness ==
    /\ pcl.pc = "announce"
    /\ ~pcl.isFirstCall
    /\ pcl.waited = pcl.pingInterval
    /\ ~pcl.done

\* C17: an announcement that returns an error closes the connection and ends
\* serveSignerLoop, no announcement is made on a closed connection, and a
\* client at the top of Start that has not seen shutdown connects next, its
\* backoff at the initial interval and no attempt counted, then registers and
\* announces
C17_AnnounceErrorReconnects ==
    /\ [][pcl.pc = "announce" /\ pcl'.pc # "announce" /\ pcl'.err
              => pcl'.pc = "top" /\ pcl'.client = "closed"]_vars
    /\ [](pcl.pc \in {"select", "announce"} => pcl.client = "open")
    /\ [][pcl.pc = "top" /\ pcl'.pc # "top" /\ ~pcl.done
              => /\ pcl'.pc = "dial"
                 /\ pcl'.currentInterval = DefaultInitialInterval
                 /\ pcl'.numTries = 0]_vars
    /\ [][pcl'.pc = "select" /\ pcl.pc # "select"
              => pcl.pc \in {"register", "announce"}]_vars
    /\ [][pcl'.pc = "register" /\ pcl.pc # "register" => pcl.pc = "dial"]_vars

\* the client dials again after an announcement failed on a connection it had
\* reached after failed attempts
C17_Witness ==
    /\ pcl.pc = "dial"
    /\ pcl.err
    /\ pcl.client = "closed"
    /\ pcl.numTries = 0
    /\ pcl.currentInterval = DefaultInitialInterval
    /\ ~pcl.done

\* C18: once the client has read the shutdown signal from p.done it makes no
\* dial attempt and no announcement: it is at the top of Start or has returned
C18_NoDialAfterShutdownObserved ==
    [][pcl.observed => pcl'.pc \in {"top", "returned"}]_vars

\* Start has returned after serveSignerLoop read the shutdown signal
C18_Witness ==
    /\ pcl.pc = "returned"
    /\ pcl.observed
    /\ pcl.client = "closed"

\* C19: after the shutdown signal is raised the client leaves the retry loop
\* of connectWithBackoff even if no dial attempt ever succeeds: Start returns,
\* unless a dial succeeds first and the client goes on to register its APIs
C19_ShutdownStopsStart == pcl.done ~> pcl.pc \in {"returned", "register"}

\* C20: Start returns only after shutdown was signalled, the wait after a
\* failed dial attempt is followed by another attempt, and so is a failed
\* announcement unless shutdown is signalled
C20_TransportFailuresNeverStop ==
    /\ [](pcl.pc = "returned" => pcl.done)
    /\ pcl.pc = "wait" ~> pcl.pc = "dial"
    /\ (pcl.pc = "top" /\ pcl.err /\ ~pcl.done) ~> (pcl.pc = "dial" \/ pcl.done)

\* after a failed announcement and two failed dial attempts the client dials
\* once more
C20_Witness ==
    /\ pcl.pc = "dial"
    /\ pcl.err
    /\ pcl.failed = 2
    /\ ~pcl.done

\* C21: the client holds no open connection once it has left serveSignerLoop
\* (after a failed announcement or on shutdown), once the registration of the
\* APIs on a new connection has failed, and once Start has returned
C21_NoConnectionLeak ==
    pcl.pc \in {"top", "blocked", "panicked", "returned"}
        => pcl.live = 0 /\ pcl.client # "open"

\* the client has left serveSignerLoop on the shutdown signal, its connection
\* closed
C21_Witness ==
    /\ pcl.pc = "top"
    /\ pcl.observed
    /\ pcl.client = "closed"
    /\ pcl.live = 0

\* C22: the client never has more than one connection open, and it has none
\* while it dials or waits between two dial attempts
C22_AtMostOneConnection ==
    /\ pcl.live <= 1
    /\ pcl.pc \in {"dial", "wait"} => pcl.live = 0

\* the client dials again, the connection it had before closed after a failed
\* announcement
C22_Witness ==
    /\ pcl.pc = "dial"
    /\ pcl.err
    /\ pcl.client = "closed"
    /\ pcl.live = 0
    /\ pcl.failed = 1

\* C23: a block-payload request that carries a senderAddress which is the
\* fromAddress of no entry of the calling client is answered Forbidden, whatever
\* its chainID, and neither signed nor forwarded
C23_UnknownSenderForbidden ==
    (/\ last.op = "SignBlockPayload"
     /\ last.args.SenderAddress # Nil
     /\ \A i \in 1..Len(config) :
           config[i].ClientName = last.out.clientName
              => config[i].FromAddress # last.args.SenderAddress)
       => /\ last.out.status = "Forbidden"
          /\ last.out.signKey = Nil
          /\ ~last.out.forwarded

\* a request of alice with the sender 0xCC and the chainID of her entry, whose
\* fromAddress is 0xAA, is answered Forbidden
C23_Witness ==
    /\ last.op = "SignBlockPayload"
    /\ last.out.clientName = "alice"
    /\ last.args.SenderAddress = CC
    /\ Len(config) > 0 /\ config[1].ClientName = "alice" /\ config[1].FromAddress = AA
    /\ last.args.ChainID = BigInt(0, config[1].ChainID)
    /\ last.args.checkOk
    /\ last.out.status = "Forbidden"

\* C24: a SignTransaction call handled by this process whose request names a
\* from address returns signed bytes only if the signer recovered from them is
\* that address; when the key signs for another address the call fails with
\* InvalidTransaction
C24_SignerIsFrom ==
    (HandledLocally("SignTransaction") /\ last.args.From # Nil)
       => /\ last.out.status = "ok"
                => /\ last.out.signKey # Nil
                   /\ KeyAddress(last.out.signKey[1]) = last.args.From
          /\ (last.out.signKey # Nil /\ KeyAddress(last.out.signKey[1]) # last.args.From)
                => last.out.status = "InvalidTransaction"

\* a request that names the from address 0xAA was signed with a key of another
\* address, no collaborator failing, and is refused
C24_Witness ==
    /\ HandledLocally("SignTransaction")
    /\ last.args.From = AA
    /\ last.fault = "none"
    /\ last.out.signKey # Nil
    /\ KeyAddress(last.out.signKey[1]) # AA
    /\ last.out.status = "InvalidTransaction"
    /\ last.out.msg = "unexpected from address"

\* the answers of the connections of a snapshot that reached the remote signer
Answers(snap, resp) ==
    {i \in 1..Len(snap) : resp[snap[i]] \in {"ok", "rpc"}}

\* C26: a call on the router is refused only by the policy lookup; a request
\* that passes it is handed to CallContext with the method of the call and the
\* arguments as they came, whether or not they are well formed and within the
\* allowlist and the value cap of the entry, and the caller gets the answer of
\* the first connection of the snapshot that reached its signer
C26_ForwardedAsReceived ==
    last.op \in {"ProxySignTransaction", "ProxySignBlockPayload"}
       => LET out == last.out
              tx == last.op = "ProxySignTransaction"
              lookup == GetAuthConfigForClient(config, last.ctx.clientName,
                            IF tx THEN Nil ELSE last.args.SenderAddress)
              answers == Answers(out.snap, last.resp)
          IN  /\ ~lookup.ok => out.status = "Forbidden" /\ out.sent = Nil
              /\ lookup.ok
                    => /\ out.method = IF tx THEN "eth_signTransaction"
                                             ELSE "opsigner_signBlockPayload"
                       /\ out.status # "Forbidden"
                       /\ out.snap # <<>> => out.sent = <<last.args>>
                       /\ out.snap = <<>> => out.ret = NoClientsAvailableError
                       /\ answers # {}
                             => \E i \in answers :
                                   /\ \A j \in answers : i <= j
                                   /\ out.ret = Response(last.resp[out.snap[i]],
                                                         out.snap[i])
                       /\ answers = {} => out.ret = NoClientsAvailableError

\* a malformed request of alice, to an address off her allowlist and above her
\* value cap, was forwarded as it came and the error of the signer returned
C26_Witness ==
    /\ last.op = "ProxySignTransaction"
    /\ last.ctx.clientName = "alice"
    /\ ~last.args.checkOk
    /\ last.args.To = CC
    /\ last.args.Value = <<3>>
    /\ last.out.sent = <<last.args>>
    /\ last.out.ret.kind = "rpc"
    /\ last.out.status = "rpcError"

\* C25: every call of SignTransaction and of SignBlockPayload increments the
\* outcome counter exactly once, whatever its outcome
C25_CountedOnce ==
    last.op \in {"SignTransaction", "SignBlockPayload"} => last.out.incs = 1

\* the values of PeerInfo.HTTP.Host a call is compared under
PeerHosts == {"", "alice", "//alice", ":"}

\* the finished call of the signing service, made again with the peer host h
SameCallFromHost(h) ==
    LET ctx == [last.ctx EXCEPT !.host = h]
    IN  IF last.op = "SignTransaction"
        THEN EthService_SignTransaction(config, pcClients, ctx, last.args,
                                        Env(last.fault))
        ELSE OpsignerSerivce_SignBlockPayload(config, pcClients, ctx, last.args,
                                              Env(last.fault))

\* C27: a call that carries a verified identity is decided under that identity:
\* the same call made with any other peer host resolves the same client name,
\* gets the same result of the policy lookup and the same outcome
C27_HostIrrelevantWithIdentity ==
    (last.op \in {"SignTransaction", "SignBlockPayload"} /\ last.ctx.clientName # "")
       => /\ last.out.clientName = last.ctx.clientName
          /\ \A h \in PeerHosts : SameCallFromHost(h) = last.out

\* a call with the verified identity bob and the peer host of alice is refused
\* for want of an entry of bob, while alice has one
C27_Witness ==
    /\ last.op = "SignTransaction"
    /\ last.ctx = [clientName |-> "bob", host |-> "//alice"]
    /\ \E i \in 1..Len(config) : config[i].ClientName = "alice"
    /\ \A i \in 1..Len(config) : config[i].ClientName # "bob"
    /\ last.out.status = "Forbidden"

\* C28: no step inserts into the registry a handle whose connection the
\* registry has closed: a handle that enters the registry has not been removed
\* and closed by a Call
C28_InsertedWhileLive ==
    [][\A h \in Handles :
          (h \in Range(wsClients') /\ h \notin Range(wsClients))
             => closes[h] < MaxCloses]_vars

\* C29: a Call that starts after a handle was removed from the registry and
\* closed makes no CallContext on that handle: the snapshot it takes at its start
\* holds no such handle
C29_Quarantine ==
    [][\A t \in Tasks :
          (task[t].pc = "idle" /\ task'[t].pc = "calling")
             => \A k \in 1..Len(task'[t].snap) :
                   closes[task'[t].snap[k]] < MaxCloses]_vars

C31_MutationsUnderLock ==
    /\ [][(reg.pc = "adding" /\ reg'.pc = "done") => mu = "reg"]_vars
    /\ [][\A t \in Tasks :
            (task[t].pc = "removing" /\ task'[t].pc # "removing") => mu = t]_vars
    /\ [](reg.pc = "adding" => \A t \in Tasks : task[t].pc # "removing")

\* C32: the client stops serving only on the shutdown signal: whenever Start
\* has returned, or stands where it makes no further dial attempt and no
\* further announcement, the shutdown signal has been raised
C32_StopsOnlyOnShutdown ==
    pcl.pc \in {"blocked", "panicked", "returned"} => pcl.done

\* the entry sets a cap that decodes, and the value of the request is above it
OverCap(ac, value) ==
    /\ DecodeBigOk(ac.MaxValue)
    /\ value # Nil
    /\ value[1] > MaxValueToInt(ac).n

\* the entry has an allowlist, and the to address of the request is not on it
OffList(ac, to) ==
    Len(ac.ToAddresses) > 0 /\ to # Nil /\ ~IsListed(ac.ToAddresses, to)

\* C33: with no proxy client registered SignTransaction checks in the order
\* policy lookup, structural validation, allowlist, value cap, and returns the
\* error of the first check that fails: Forbidden when the lookup fails, even
\* for a malformed request; InvalidTransaction for a malformed request of an
\* authorized client, even when it is off the allowlist or above the cap; the
\* allowlist error before the cap error; and SignDigest is called only for a
\* request that passed all four
C33_ChecksInOrder ==
    (last.op = "SignTransaction" /\ pcClients = <<>>)
       => LET out == last.out
              ac == out.lookup.ac
              authorized == GetAuthConfigForClient(config, TxClientName(last.ctx), Nil).ok
          IN  /\ ~authorized => (out.status = "Forbidden" /\ out.signKey = Nil)
              /\ (authorized /\ ~last.args.checkOk)
                    => /\ out.status = "InvalidTransaction" /\ out.msg = "check"
                       /\ out.signKey = Nil
              /\ (authorized /\ last.args.checkOk /\ OffList(ac, last.args.To))
                    => /\ out.status = "UnauthorizedTransaction"
                       /\ out.msg = "to address not authorized"
                       /\ out.signKey = Nil
              /\ (/\ authorized /\ last.args.checkOk
                  /\ Len(ac.ToAddresses) > 0 => IsListed(ac.ToAddresses, last.args.To)
                  /\ OverCap(ac, last.args.Value))
                    => /\ out.status = "UnauthorizedTransaction"
                       /\ out.msg = "value exceeds maximum"
                       /\ out.signKey = Nil
              /\ out.signKey # Nil
                    => /\ authorized /\ last.args.checkOk
                       /\ ~OffList(ac, last.args.To)
                       /\ ~OverCap(ac, last.args.Value)

\* a malformed request of an authorized client, to an address off the allowlist
\* of the entry and with a value above its cap, is refused as malformed
C33_Witness ==
    /\ last.op = "SignTransaction" /\ pcClients = <<>>
    /\ last.out.lookup.ok
    /\ ~last.args.checkOk
    /\ OffList(last.out.lookup.ac, last.args.To)
    /\ OverCap(last.out.lookup.ac, last.args.Value)
    /\ last.out.status = "InvalidTransaction"
    /\ last.out.msg = "check"

\* C34: the router forwards a block-payload request to a signer only if an
\* entry of the calling client has the senderAddress of the request for its
\* fromAddress; a request that carries no senderAddress equals none
C34_ForwardedOnlyForSender ==
    (last.op = "ProxySignBlockPayload" /\ last.out.sent # Nil)
       => \E i \in 1..Len(config) :
             /\ config[i].ClientName = last.ctx.clientName
             /\ config[i].FromAddress = last.args.SenderAddress

\* C35: a Call makes its CallContexts on the handles of the snapshot it took
\* of the registry at its start, in the order of the snapshot, each handle once
\* and one call at a time; the snapshot does not change while the Call runs,
\* so a handle registered meanwhile is not called, and a Call whose handles
\* have all failed returns NoClientsAvailable without looking at the registry
\* again
C35_CallsOnItsSnapshotOnly ==
    /\ [][\A t \in Tasks :
            (task[t].pc = "idle" /\ task'[t].pc = "calling")
               => (task'[t].snap = wsClients /\ task'[t].i = 1)]_vars
    /\ [][\A t \in Tasks :
            task[t].pc = "calling"
               => /\ task'[t].snap = task[t].snap
                  /\ task'[t].i \in {task[t].i, task[t].i + 1}
                  /\ task'[t].pc \in {"calling", "done"}]_vars
    /\ [](\A t \in Tasks :
            /\ task[t].pc = "calling" => task[t].i \in 1..Len(task[t].snap)
            /\ \A j, k \in 1..Len(task[t].snap) :
                  task[t].snap[j] = task[t].snap[k] => j = k
            /\ (task[t].pc = "done" /\ task[t].i = Len(task[t].snap) + 1)
                  => task[t].ret = NoClientsAvailableError)

\* a Call whose one handle failed has returned NoClientsAvailable, and the
\* registry holds an open connection that registered after the snapshot
C35_Witness ==
    \E t \in Tasks, h \in Handles :
        /\ task[t].pc = "done"
        /\ task[t].ret = NoClientsAvailableError
        /\ Len(task[t].snap) = 1 /\ task[t].i = 2
        /\ h \in Range(wsClients) /\ closes[h] = 0
        /\ h \notin Range(task[t].snap)

\* C36: the router forwards a request under the RPC method it came in on:
\* every CallContext of an eth_signTransaction call is made with the method
\* eth_signTransaction, every CallContext of an opsigner_signBlockPayload call
\* with opsigner_signBlockPayload
C36_ForwardedUnderItsMethod ==
    /\ (last.op = "ProxySignTransaction" /\ last.out.sent # Nil)
          => last.out.method = "eth_signTransaction"
    /\ (last.op = "ProxySignBlockPayload" /\ last.out.sent # Nil)
          => last.out.method = "opsigner_signBlockPayload"

\* a block-payload request was forwarded and the signer answered it
C36_Witness ==
    /\ last.op = "ProxySignBlockPayload"
    /\ last.args.SenderAddress # Nil
    /\ last.out.sent = <<last.args>>
    /\ last.out.method = "opsigner_signBlockPayload"
    /\ last.out.ret.kind = "ok"

\* C37: a call context identifies the same client on both signing paths: the
\* name SignTransaction resolved for the finished call is the name
\* SignBlockPayload resolves for the same context, and the other way round
C37_SameNameOnBothPaths ==
    /\ last.op = "SignTransaction" => last.out.clientName = BpClientName(last.ctx)
    /\ last.op = "SignBlockPayload" => last.out.clientName = TxClientName(last.ctx)

\* C38: in every policy table ReadConfig accepts, an entry with a non-empty
\* maxValue has one that decodes as a hex big integer, whether or not the entry
\* lists toAddresses, and no SignTransaction call panics in MaxValueToInt
C38_AcceptedMaxValueDecodes ==
    /\ \A i \in 1..Len(config) :
          config[i].MaxValue # <<>> => DecodeBigOk(config[i].MaxValue)
    /\ last.op = "SignTransaction"
          => ~(last.out.status = "crashed" /\ last.out.msg = "maxValue")

\* the finished call of SignTransaction, made again with the from address f
SameCallWithFrom(f) ==
    EthService_SignTransaction(config, pcClients, last.ctx,
                               [last.args EXCEPT !.From = f], Env(last.fault))

\* C39: SignTransaction takes the first entry of the table that carries the
\* name of the caller and calls SignDigest with the key of that entry, whatever
\* the from address of the request: the same call with another from address
\* selects the same entry and signs with the same key, and an entry of the
\* client further down the table is never selected
C39_FirstEntryOfTheName ==
    (last.op = "SignTransaction" /\ last.out.lookup.ok)
       => /\ \E i \in 1..Len(config) :
                /\ config[i].ClientName = last.out.clientName
                /\ \A j \in 1..(i - 1) : config[j].ClientName # last.out.clientName
                /\ last.out.lookup.ac = config[i]
                /\ last.out.signKey # Nil => last.out.signKey = <<config[i].KeyName>>
          /\ \A f \in {Nil} \cup Addrs :
                /\ SameCallWithFrom(f).lookup = last.out.lookup
                /\ SameCallWithFrom(f).signKey = last.out.signKey

\* a request from 0xAA of a client whose first entry has the fromAddress 0xBB
\* and whose second entry has 0xAA was signed with the key of the first
C39_Witness ==
    /\ last.op = "SignTransaction"
    /\ last.args.From = AA
    /\ Len(config) = 2
    /\ config[1].ClientName = last.out.clientName
    /\ config[2].ClientName = last.out.clientName
    /\ config[1].FromAddress = BB /\ config[2].FromAddress = AA
    /\ config[1].KeyName # config[2].KeyName
    /\ last.out.signKey = <<config[1].KeyName>>

====
